---- MODULE Spec2Model ----
(***************************************************************************)
(* Model of backend/app/services/scraper.py: TikTokScraper._fetch_metadata,*)
(* TikTokScraper._fetch_transcript and TikTokScraper.fetch_tiktok_data     *)
(* (URL normalisation, two concurrent upstream requests under              *)
(* asyncio.gather, the except clauses and the assembly of TikTokData).     *)
(***************************************************************************)
EXTENDS Integers, Sequences, FiniteSets, TLC

\* Largest integer that occurs as a number in a response body (0..MaxCount).
MaxCount == 1

(***************************************************************************)
(* JSON values as Python sees them after response.json().                  *)
(***************************************************************************)
None == [k |-> "null"]
JStr(x) == [k |-> "str", s |-> x]
JInt(i) == [k |-> "int", n |-> i]
JObj(f) == [k |-> "obj", o |-> f]

EmptyDict == [x \in {} |-> None]

\* Python truthiness, as used by the `or` of the field mapping.
Truthy(v) ==
    CASE v.k = "null" -> FALSE
      [] v.k = "str" -> v.s # ""
      [] v.k = "int" -> v.n # 0
      [] v.k = "obj" -> DOMAIN v.o # {}
      [] OTHER -> TRUE

\* A Python evaluation either returns a value or raises an exception.
Ret(v) == [raised |-> FALSE, val |-> v]
Raise(e) == [raised |-> TRUE, exc |-> e]

(***************************************************************************)
(* Exceptions: class, status_code attribute and message (str(e)).          *)
(***************************************************************************)
\* status_code of a SupadataAPIError built without one (Python None).
NoStatus == 0

Exc(cls, status, msg) == [cls |-> cls, status_code |-> status, message |-> msg]

SupadataAuthError == Exc("SupadataAuthError", NoStatus, <<>>)
SupadataCreditsExhausted == Exc("SupadataCreditsExhausted", NoStatus, <<>>)
SupadataAPIError(msg, status) == Exc("SupadataAPIError", status, msg)
InvalidTikTokURLError(msg) == Exc("InvalidTikTokURLError", NoStatus, msg)
ValueError(msg) == Exc("ValueError", NoStatus, msg)
\* json.JSONDecodeError, raised by response.json(); a subclass of ValueError.
JSONDecodeError == Exc("JSONDecodeError", NoStatus, <<"Expecting value">>)
\* raised by x.get(...) when x is not a dict
AttributeError == Exc("AttributeError", NoStatus, <<"object has no attribute 'get'">>)
\* httpx.HTTPError: transport failure of client.get
HTTPError == Exc("HTTPError", NoStatus, <<"transport failure">>)

\* isinstance(e, ValueError)
IsValueError(e) == e.cls \in {"ValueError", "JSONDecodeError"}

\* str(status_code) inside the f-strings
StatusText(s) ==
    CASE s = 401 -> "401" [] s = 402 -> "402" [] s = 403 -> "403"
      [] s = 404 -> "404" [] s = 500 -> "500" [] OTHER -> "200"

(***************************************************************************)
(* HTTP responses of the upstream provider.                                *)
(***************************************************************************)
NotJson == [valid |-> FALSE]
Doc(v) == [valid |-> TRUE, val |-> v]

TransportFailure == [transport |-> "failed", status_code |-> 0, text |-> "", json |-> NotJson]
ErrResponse(s, t) == [transport |-> "ok", status_code |-> s, text |-> t, json |-> NotJson]
OkResponse(d) == [transport |-> "ok", status_code |-> 200, text |-> "body", json |-> d]

ErrStatuses == {401, 402, 403, 404, 500}

\* dict.get(key): the value, or None when the key is absent
get(d, key) == IF key \in DOMAIN d THEN d[key] ELSE None

\* data.get(outer, {}).get(inner): AttributeError unless the outer value is a dict
get_nested(d, outer, inner) ==
    LET c == IF outer \in DOMAIN d THEN d[outer] ELSE JObj(EmptyDict)
    IN IF c.k = "obj" THEN Ret(get(c.o, inner)) ELSE Raise(AttributeError)

\* `a or <expr>`: expr is evaluated only when a is falsy
py_or(a, rb) == IF Truthy(a) THEN Ret(a) ELSE rb

\* TikTokMetadata(...): the schema object holding the eight mapped fields
TikTokMetadata(f) ==
    [title |-> f[1].val, description |-> f[2].val, audio_url |-> f[3].val,
     author |-> f[4].val, likes |-> f[5].val, views |-> f[6].val,
     shares |-> f[7].val, comments |-> f[8].val]

\* The mapping with the aliases of likes and views exchanged.
metadata_fields_wrong_alias(data) ==
    << py_or(get(data, "title"), Ret(get(data, "desc"))),
       py_or(get(data, "description"), Ret(get(data, "desc"))),
       py_or(get(data, "audio_url"), get_nested(data, "music", "playUrl")),
       py_or(get(data, "author"), get_nested(data, "author", "uniqueId")),
       py_or(get(data, "likes"), get_nested(data, "stats", "playCount")),
       py_or(get(data, "views"), get_nested(data, "stats", "diggCount")),
       py_or(get(data, "shares"), get_nested(data, "stats", "shareCount")),
       py_or(get(data, "comments"), get_nested(data, "stats", "commentCount")) >>

\* The keyword arguments of TikTokMetadata(...), evaluated in order.
metadata_fields(data) ==
    << py_or(get(data, "title"), Ret(get(data, "desc"))),
       py_or(get(data, "description"), Ret(get(data, "desc"))),
       py_or(get(data, "audio_url"), get_nested(data, "music", "playUrl")),
       py_or(get(data, "author"), get_nested(data, "author", "uniqueId")),
       py_or(get(data, "likes"), get_nested(data, "stats", "diggCount")),
       py_or(get(data, "views"), get_nested(data, "stats", "playCount")),
       py_or(get(data, "shares"), get_nested(data, "stats", "shareCount")),
       py_or(get(data, "comments"), get_nested(data, "stats", "commentCount")) >>

\* data = response.json() followed by the mapping into TikTokMetadata
parse_metadata(doc) ==
    IF ~doc.valid THEN Raise(JSONDecodeError)
    ELSE IF doc.val.k # "obj" THEN Raise(AttributeError)
    ELSE LET f == metadata_fields(doc.val.o)
         IN IF \E i \in 1..8 : f[i].raised THEN Raise(AttributeError)
            ELSE Ret(TikTokMetadata(f))

\* _fetch_metadata without its 402 branch: 402 is reported like any status >= 400.
fetch_metadata_no_402(response) ==
    IF response.transport = "failed"
    THEN Raise(SupadataAPIError(<<"Failed to fetch metadata: ">> \o HTTPError.message, NoStatus))
    ELSE IF response.status_code = 401 THEN Raise(SupadataAuthError)
    ELSE IF response.status_code >= 400
    THEN Raise(SupadataAPIError(
            <<"Metadata API error: ", StatusText(response.status_code), " - ", response.text>>,
            response.status_code))
    ELSE parse_metadata(response.json)

\* _fetch_metadata raising its generic error without status_code=...
fetch_metadata_drops_status(response) ==
    IF response.transport = "failed"
    THEN Raise(SupadataAPIError(<<"Failed to fetch metadata: ">> \o HTTPError.message, NoStatus))
    ELSE IF response.status_code = 401 THEN Raise(SupadataAuthError)
    ELSE IF response.status_code = 402 THEN Raise(SupadataCreditsExhausted)
    ELSE IF response.status_code >= 400
    THEN Raise(SupadataAPIError(
            <<"Metadata API error: ", StatusText(response.status_code), " - ", response.text>>,
            NoStatus))
    ELSE parse_metadata(response.json)

\* TikTokScraper._fetch_metadata, from the response of client.get
fetch_metadata(response) ==
    IF response.transport = "failed"
    THEN Raise(SupadataAPIError(<<"Failed to fetch metadata: ">> \o HTTPError.message, NoStatus))
    ELSE IF response.status_code = 401 THEN Raise(SupadataAuthError)
    ELSE IF response.status_code = 402 THEN Raise(SupadataCreditsExhausted)
    ELSE IF response.status_code >= 400
    THEN Raise(SupadataAPIError(
            <<"Metadata API error: ", StatusText(response.status_code), " - ", response.text>>,
            response.status_code))
    ELSE parse_metadata(response.json)

TikTokTranscript(text, language) ==
    [k |-> "TikTokTranscript", text |-> text, language |-> language]

\* The transcript mapping without the `if transcript_text` test: a
\* TikTokTranscript is built whatever the text is.
parse_transcript_keeps_empty(doc) ==
    IF ~doc.valid THEN Raise(JSONDecodeError)
    ELSE IF doc.val.k # "obj" THEN Raise(AttributeError)
    ELSE LET data == doc.val.o
             transcript_text == py_or(get(data, "text"), Ret(get(data, "transcript"))).val
             language == py_or(get(data, "language"), Ret(get(data, "lang"))).val
         IN Ret([k |-> "TikTokTranscript", text |-> transcript_text, language |-> language])

\* data = response.json() followed by the mapping into TikTokTranscript or None
parse_transcript(doc) ==
    IF ~doc.valid THEN Raise(JSONDecodeError)
    ELSE IF doc.val.k # "obj" THEN Raise(AttributeError)
    ELSE LET data == doc.val.o
             transcript_text == py_or(get(data, "text"), Ret(get(data, "transcript"))).val
             language == py_or(get(data, "language"), Ret(get(data, "lang"))).val
         IN IF Truthy(transcript_text)
            THEN Ret(TikTokTranscript(transcript_text, language))
            ELSE Ret(None)

\* _fetch_transcript without its 404 branch: 404 is reported as an API error.
fetch_transcript_404_error(response) ==
    IF response.transport = "failed"
    THEN Raise(SupadataAPIError(<<"Failed to fetch transcript: ">> \o HTTPError.message, NoStatus))
    ELSE IF response.status_code = 401 THEN Raise(SupadataAuthError)
    ELSE IF response.status_code = 402 THEN Raise(SupadataCreditsExhausted)
    ELSE IF response.status_code >= 400
    THEN Raise(SupadataAPIError(
            <<"Transcript API error: ", StatusText(response.status_code), " - ", response.text>>,
            response.status_code))
    ELSE parse_transcript(response.json)

\* TikTokScraper._fetch_transcript, from the response of client.get
fetch_transcript(response) ==
    IF response.transport = "failed"
    THEN Raise(SupadataAPIError(<<"Failed to fetch transcript: ">> \o HTTPError.message, NoStatus))
    ELSE IF response.status_code = 404 THEN Ret(None)
    ELSE IF response.status_code = 401 THEN Raise(SupadataAuthError)
    ELSE IF response.status_code = 402 THEN Raise(SupadataCreditsExhausted)
    ELSE IF response.status_code >= 400
    THEN Raise(SupadataAPIError(
            <<"Transcript API error: ", StatusText(response.status_code), " - ", response.text>>,
            response.status_code))
    ELSE parse_transcript(response.json)

(***************************************************************************)
(* URL normalisation (app.utils.url_utils): clean, resolve short links,    *)
(* extract the video id.  Each step returns a value or raises ValueError.  *)
(***************************************************************************)
LongUrl == "https://www.tiktok.com/@user/video/7000000000000000000"
ProfileUrl == "https://www.tiktok.com/@user"

Urls ==
    { "", "https://example.com/video/1",
      " https://www.tiktok.com/@user/video/7000000000000000000?utm_source=x ",
      LongUrl, ProfileUrl,
      "https://vt.tiktok.com/ABC123/", "https://vt.tiktok.com/DEAD/",
      "https://vt.tiktok.com/PROFILE/" }

clean_tiktok_url(u) ==
    CASE u = "" -> Raise(ValueError(<<"URL is empty">>))
      [] u = "https://example.com/video/1" -> Raise(ValueError(<<"Not a TikTok URL">>))
      [] u = " https://www.tiktok.com/@user/video/7000000000000000000?utm_source=x " -> Ret(LongUrl)
      [] OTHER -> Ret(u)

resolve_short_url(u) ==
    CASE u = "https://vt.tiktok.com/ABC123/" -> Ret(LongUrl)
      [] u = "https://vt.tiktok.com/PROFILE/" -> Ret(ProfileUrl)
      [] u = "https://vt.tiktok.com/DEAD/" -> Raise(ValueError(<<"Could not resolve short URL">>))
      [] OTHER -> Ret(u)

extract_video_id(u) ==
    IF u = LongUrl THEN Ret("7000000000000000000")
    ELSE Raise(ValueError(<<"Could not extract video ID">>))

(***************************************************************************)
(* fetch_tiktok_data: the except clauses, gather and the record assembly.  *)
(***************************************************************************)
\* The except clauses without the re-raise of auth and credits errors.
handlers_wraps_auth(e) ==
    IF IsValueError(e) THEN InvalidTikTokURLError(e.message)
    ELSE SupadataAPIError(<<"Failed to fetch TikTok data: ">> \o e.message, NoStatus)

\* The except clauses without the final `except Exception`.
handlers_no_catch_all(e) ==
    IF IsValueError(e) THEN InvalidTikTokURLError(e.message)
    ELSE e

\* The three except clauses of fetch_tiktok_data, applied to an exception
\* raised inside its try block: the exception the caller receives.
handlers(e) ==
    IF IsValueError(e) THEN InvalidTikTokURLError(e.message)
    ELSE IF e.cls \in {"SupadataAuthError", "SupadataCreditsExhausted"} THEN e
    ELSE SupadataAPIError(<<"Failed to fetch TikTok data: ">> \o e.message, NoStatus)

NoExc == Exc("none", NoStatus, <<>>)
GatherIdle == [state |-> "idle", exc |-> NoExc, from |-> "none"]
GatherWaiting == [state |-> "waiting", exc |-> NoExc, from |-> "none"]

\* A gather in which a later exception replaces the one already set.
gather_callback_last_wins(g, who, result, otherDone) ==
    IF result.raised THEN [state |-> "raised", exc |-> result.exc, from |-> who]
    ELSE IF g.state = "waiting" /\ otherDone
    THEN [state |-> "returned", exc |-> NoExc, from |-> "none"]
    ELSE g

\* asyncio.gather(..., return_exceptions=False), on the completion of one of
\* its two tasks: the first exception is set on the awaited future at once;
\* the result is set when both tasks have returned; once the future is done a
\* later completion only has its exception marked as retrieved.
gather_callback(g, who, result, otherDone) ==
    IF g.state # "waiting" THEN g
    ELSE IF result.raised THEN [state |-> "raised", exc |-> result.exc, from |-> who]
    ELSE IF otherDone THEN [state |-> "returned", exc |-> NoExc, from |-> "none"]
    ELSE g

\* A gather that hands back its results in the order the tasks finished.
gather_results_by_completion(metaR, transR, order) ==
    IF Len(order) > 0 /\ order[1] = "transcript" THEN <<transR, metaR>> ELSE <<metaR, transR>>

\* The value of `await asyncio.gather(metadata_task, transcript_task)`: the
\* results in the order of the arguments, whatever the order of completion.
gather_results(metaR, transR, order) == <<metaR, transR>>

\* Step 5: TikTokData(...) built from the two results
TikTokData(url, vid, metadata, transcript) ==
    LET has_transcript == transcript # None /\ transcript.text # None
    IN [url |-> url, video_id |-> vid,
        title |-> metadata.title, description |-> metadata.description,
        audio_url |-> metadata.audio_url, author |-> metadata.author,
        likes |-> metadata.likes, views |-> metadata.views,
        shares |-> metadata.shares, comments |-> metadata.comments,
        transcript |-> IF transcript # None THEN transcript.text ELSE None,
        transcript_language |-> IF transcript # None THEN transcript.language ELSE None,
        has_transcript |-> has_transcript]

Pending == [kind |-> "pending"]
Returned(v) == [kind |-> "returned", value |-> v]
Raised(e) == [kind |-> "raised", exc |-> e]

(***************************************************************************)
(* The answers the provider can give (inputs of the model).                *)
(***************************************************************************)
Scalars == {None, JStr(""), JStr("hello")} \cup {JInt(i) : i \in 0..MaxCount}

InnerKeys(key) ==
    CASE key = "stats" -> {"diggCount", "playCount", "shareCount", "commentCount"}
      [] key = "music" -> {"playUrl"}
      [] key = "author" -> {"uniqueId"}
      [] OTHER -> {}

Values(key) ==
    Scalars \cup {JObj(EmptyDict)}
            \cup {JObj(ik :> v) : ik \in InnerKeys(key), v \in Scalars}

MetaKeys ==
    {"title", "desc", "description", "audio_url", "music", "author",
     "likes", "views", "shares", "comments", "stats"}

TranscriptKeys == {"text", "transcript", "language", "lang"}

FullMetadataBody ==
    [title |-> JStr("hello"), description |-> JStr("hello"), audio_url |-> JStr("hello"),
     author |-> JStr("hello"), likes |-> JInt(MaxCount), views |-> JInt(MaxCount),
     shares |-> JInt(MaxCount), comments |-> JInt(MaxCount)]

MetaBodies ==
    {EmptyDict, FullMetadataBody,
     [desc |-> JStr("hello"), stats |-> JObj("diggCount" :> JInt(MaxCount))],
     [likes |-> JInt(0), stats |-> JObj("diggCount" :> JInt(MaxCount))],
     [title |-> JStr(""), desc |-> JStr("hello")]}
    \cup UNION {{key :> v : v \in Values(key)} : key \in MetaKeys}

TranscriptBodies ==
    {EmptyDict,
     [text |-> JStr("hello"), language |-> JStr("hello")],
     [transcript |-> JStr("hello"), lang |-> JStr("hello")],
     [text |-> JStr(""), transcript |-> JStr("hello")],
     [language |-> JStr(""), lang |-> JStr("hello"), text |-> JStr("hello")]}
    \cup UNION {{key :> v : v \in Values(key)} : key \in TranscriptKeys}

Docs(bodies) == {NotJson, Doc(JStr("hello"))} \cup {Doc(JObj(b)) : b \in bodies}

Responses(bodies) ==
    {TransportFailure} \cup {ErrResponse(s, "boom") : s \in ErrStatuses}
                       \cup {OkResponse(d) : d \in Docs(bodies)}

MetaResponses == Responses(MetaBodies)
TranscriptResponses == Responses(TranscriptBodies)

\* What client.get can produce: any answer of the provider while the client is
\* open; once the client has been closed the request can only fail.
Answers(c, responses) == IF c = "open" THEN responses ELSE {TransportFailure}

NoResponse == [transport |-> "none", status_code |-> 0, text |-> "", json |-> NotJson]
NoResult == [raised |-> FALSE, val |-> [k |-> "unset"]]

(***************************************************************************)
(* State of one call of fetch_tiktok_data.                                 *)
(***************************************************************************)
VARIABLES
    pc,             \* position of the fetch_tiktok_data coroutine
    video_url,      \* its argument
    cleaned_url, resolved_url, video_id,
    client,         \* the httpx.AsyncClient of the async with: "none", "open", "closed"
    metaTask,       \* task of _fetch_metadata: "none", "created", "inflight", "done"
    transTask,      \* task of _fetch_transcript
    metaAnswer,     \* response delivered to _fetch_metadata
    transAnswer,    \* response delivered to _fetch_transcript
    metaResult,     \* what the metadata task returned or raised
    transResult,    \* what the transcript task returned or raised
    gather,         \* the future awaited at asyncio.gather
    finished,       \* the tasks that have finished, in the order they finished
    metaRequests,   \* number of requests sent to the metadata endpoint
    transRequests,  \* number of requests sent to the transcript endpoint
    outcome         \* what the caller of fetch_tiktok_data receives

vars ==
    <<pc, video_url, cleaned_url, resolved_url, video_id, client, metaTask,
      transTask, metaAnswer, transAnswer, metaResult, transResult, gather,
      finished, metaRequests, transRequests, outcome>>

urlVars == <<video_url, cleaned_url, resolved_url, video_id>>
taskVars ==
    <<metaTask, transTask, metaAnswer, transAnswer, metaResult, transResult,
      gather, finished, metaRequests, transRequests>>

Init ==
    /\ pc = "clean"
    /\ video_url \in Urls
    /\ cleaned_url = "" /\ resolved_url = "" /\ video_id = ""
    /\ client = "none"
    /\ metaTask = "none" /\ transTask = "none"
    /\ metaAnswer = NoResponse /\ transAnswer = NoResponse
    /\ metaResult = NoResult /\ transResult = NoResult
    /\ gather = GatherIdle
    /\ finished = <<>>
    /\ metaRequests = 0 /\ transRequests = 0
    /\ outcome = Pending

\* An exception that is swallowed: the coroutine carries on with step 4.
Fail_swallowed(e) ==
    /\ outcome' = outcome
    /\ pc' = "open"

\* An exception raised inside the try block leaves through the except clauses.
Fail(e) ==
    /\ outcome' = Raised(handlers(e))
    /\ pc' = "done"

\* Step 1: cleaned_url = clean_tiktok_url(video_url)
CleanUrl ==
    /\ pc = "clean"
    /\ LET r == clean_tiktok_url(video_url)
       IN IF r.raised
          THEN Fail(r.exc) /\ UNCHANGED cleaned_url
          ELSE cleaned_url' = r.val /\ pc' = "resolve" /\ UNCHANGED outcome
    /\ UNCHANGED <<video_url, resolved_url, video_id, client, taskVars>>

\* Step 2: resolved_url = await resolve_short_url(cleaned_url)
ResolveShortUrl ==
    /\ pc = "resolve"
    /\ LET r == resolve_short_url(cleaned_url)
       IN IF r.raised
          THEN Fail(r.exc) /\ UNCHANGED resolved_url
          ELSE resolved_url' = r.val /\ pc' = "extract" /\ UNCHANGED outcome
    /\ UNCHANGED <<video_url, cleaned_url, video_id, client, taskVars>>

\* Step 3: video_id = extract_video_id(resolved_url)
ExtractVideoId ==
    /\ pc = "extract"
    /\ LET r == extract_video_id(resolved_url)
       IN IF r.raised
          THEN Fail(r.exc) /\ UNCHANGED video_id
          ELSE video_id' = r.val /\ pc' = "open" /\ UNCHANGED outcome
    /\ UNCHANGED <<video_url, cleaned_url, resolved_url, client, taskVars>>

\* Step 4: async with httpx.AsyncClient() as client; the two coroutines are
\* created and handed to asyncio.gather, which the coroutine then awaits.
OpenClient ==
    /\ pc = "open"
    /\ client' = "open"
    /\ metaTask' = "created" /\ transTask' = "created"
    /\ gather' = GatherWaiting
    /\ pc' = "gather"
    /\ UNCHANGED <<urlVars, metaAnswer, transAnswer, metaResult, transResult,
                   finished, metaRequests, transRequests, outcome>>

\* Settings.MAX_RETRIES: configured, and read nowhere in the scraper.
MAX_RETRIES == 3

\* A fetch that is started again after a failure, up to MAX_RETRIES times.
task_after_retry(result, requests) ==
    IF result.raised /\ requests <= MAX_RETRIES THEN "created" ELSE "done"

\* State of a task once its fetch has returned or raised: there is no retry
\* loop, the task is finished whatever the result and the number of requests.
task_after(result, requests) == "done"

\* The metadata task runs up to its await of client.get: the request is sent.
StartMetadata ==
    /\ metaTask = "created"
    /\ metaTask' = "inflight"
    /\ metaRequests' = metaRequests + 1
    /\ UNCHANGED <<pc, urlVars, client, transTask, metaAnswer, transAnswer,
                   metaResult, transResult, gather, finished, transRequests, outcome>>

\* The transcript task, scheduled after the metadata task, does the same.
StartTranscript ==
    /\ transTask = "created" /\ metaTask # "created"
    /\ transTask' = "inflight"
    /\ transRequests' = transRequests + 1
    /\ UNCHANGED <<pc, urlVars, client, metaTask, metaAnswer, transAnswer,
                   metaResult, transResult, gather, finished, metaRequests, outcome>>

\* client.get of _fetch_metadata completes; the rest of _fetch_metadata runs
\* and the task finishes, which gather observes.
MetadataDone ==
    /\ metaTask = "inflight" /\ transTask # "created"
    /\ \E response \in Answers(client, MetaResponses) :
          LET result == fetch_metadata(response)
          IN /\ metaAnswer' = response
             /\ metaResult' = result
             /\ gather' = gather_callback(gather, "metadata", result, transTask = "done")
             /\ metaTask' = task_after(result, metaRequests)
    /\ finished' = Append(finished, "metadata")
    /\ UNCHANGED <<pc, urlVars, client, transTask, transAnswer, transResult,
                   metaRequests, transRequests, outcome>>

\* client.get of _fetch_transcript completes; likewise.
TranscriptDone ==
    /\ transTask = "inflight"
    /\ \E response \in Answers(client, TranscriptResponses) :
          LET result == fetch_transcript(response)
          IN /\ transAnswer' = response
             /\ transResult' = result
             /\ gather' = gather_callback(gather, "transcript", result, metaTask = "done")
             /\ transTask' = task_after(result, transRequests)
    /\ finished' = Append(finished, "transcript")
    /\ UNCHANGED <<pc, urlVars, client, metaTask, metaAnswer, metaResult,
                   metaRequests, transRequests, outcome>>

\* The await of gather finishes (with the results or with the first
\* exception) and the async with block is left: the client is closed.
GatherResume ==
    /\ pc = "gather" /\ gather.state \in {"returned", "raised"}
    /\ client' = "closed"
    /\ pc' = IF gather.state = "returned" THEN "assemble" ELSE "except"
    /\ UNCHANGED <<urlVars, taskVars, outcome>>

\* Step 5: `metadata, transcript = ...` takes the two results of gather, and
\* the record is built and returned; reading .title of a value that is no
\* TikTokMetadata, or .text of one that is no TikTokTranscript, raises
\* AttributeError inside the try block.
Assemble ==
    /\ pc = "assemble"
    /\ LET results == gather_results(metaResult.val, transResult.val, finished)
           metadata == results[1]
           transcript == results[2]
       IN outcome' =
             IF "title" \in DOMAIN metadata
                  /\ (transcript = None \/ "text" \in DOMAIN transcript)
             THEN Returned(TikTokData(resolved_url, video_id, metadata, transcript))
             ELSE Raised(handlers(AttributeError))
    /\ pc' = "done"
    /\ UNCHANGED <<urlVars, client, taskVars>>

\* The exception raised by the await of gather reaches the except clauses.
Except ==
    /\ pc = "except"
    /\ Fail(gather.exc)
    /\ UNCHANGED <<urlVars, client, taskVars>>

Next ==
    \/ CleanUrl
    \/ ResolveShortUrl
    \/ ExtractVideoId
    \/ OpenClient
    \/ StartMetadata
    \/ StartTranscript
    \/ MetadataDone
    \/ TranscriptDone
    \/ GatherResume
    \/ Assemble
    \/ Except

Spec == Init /\ [][Next]_vars

TypeOK ==
    /\ pc \in {"clean", "resolve", "extract", "open", "gather", "assemble", "except", "done"}
    /\ client \in {"none", "open", "closed"}
    /\ metaTask \in {"none", "created", "inflight", "done"}
    /\ transTask \in {"none", "created", "inflight", "done"}
    /\ outcome.kind \in {"pending", "returned", "raised"}
    /\ (pc = "done") = (outcome.kind # "pending")

(***************************************************************************)
(* Properties.                                                             *)
(***************************************************************************)
Answered(response, status) ==
    response.transport = "ok" /\ response.status_code = status

Delivered == pc = "done"

FailedWith(cls) == outcome.kind = "raised" /\ outcome.exc.cls = cls

\* The transcript task raised before the metadata task did, and its error is
\* not of class cls: gather propagated the transcript task's exception.
TranscriptErrorWon(cls) ==
    /\ gather.from = "transcript"
    /\ transResult.raised /\ transResult.exc.cls # cls
    /\ outcome = Raised(handlers(transResult.exc))

\* C1 (as stated): whenever the metadata request was answered 401, the call
\* fails with SupadataAuthError, whatever the transcript request did and
\* whichever request completed first.
C1_AuthWhateverTranscript ==
    (Delivered /\ Answered(metaAnswer, 401)) => FailedWith("SupadataAuthError")

\* C1 (amended): whenever the metadata request was answered 401 the call
\* fails; it fails with SupadataAuthError unless the transcript task raised
\* an error of another class first, in which case that error, passed through
\* the except clauses, is the outcome.
C1_AuthUnlessTranscriptFailedFirst ==
    (Delivered /\ Answered(metaAnswer, 401)) =>
        /\ outcome.kind = "raised"
        /\ \/ outcome.exc = SupadataAuthError
           \/ TranscriptErrorWon("SupadataAuthError")

\* Metadata answered 401 after the transcript task had already returned a
\* transcript: the call fails with the auth error.
C1_Witness ==
    /\ Delivered /\ Answered(metaAnswer, 401)
    /\ transTask = "done" /\ Answered(transAnswer, 200)
    /\ ~transResult.raised /\ transResult.val # None
    /\ outcome = Raised(SupadataAuthError)

\* C2 (as stated): whenever the metadata request was answered 402, the call
\* fails with SupadataCreditsExhausted, for every transcript outcome and order.
C2_QuotaWhateverTranscript ==
    (Delivered /\ Answered(metaAnswer, 402)) => FailedWith("SupadataCreditsExhausted")

\* C2 (amended): whenever the metadata request was answered 402 the call
\* fails; it fails with SupadataCreditsExhausted unless the transcript task
\* raised an error of another class first, which is then the outcome.
C2_QuotaUnlessTranscriptFailedFirst ==
    (Delivered /\ Answered(metaAnswer, 402)) =>
        /\ outcome.kind = "raised"
        /\ \/ outcome.exc = SupadataCreditsExhausted
           \/ TranscriptErrorWon("SupadataCreditsExhausted")

\* Metadata answered 402 while the transcript request is still in flight.
C2_Witness ==
    /\ Delivered /\ Answered(metaAnswer, 402)
    /\ transTask = "inflight"
    /\ outcome = Raised(SupadataCreditsExhausted)

\* C3: when normalisation and the metadata fetch succeeded and the transcript
\* request was answered 404, a record is returned with has_transcript false
\* and transcript and transcript_language null; and whenever the transcript
\* request was answered 404 and the call failed, the error is the metadata
\* call's.
C3_Transcript404IsAbsence ==
    (Delivered /\ Answered(transAnswer, 404)) =>
        /\ ~transResult.raised
        /\ (metaTask = "done" /\ ~metaResult.raised) =>
              /\ outcome.kind = "returned"
              /\ outcome.value.has_transcript = FALSE
              /\ outcome.value.transcript = None
              /\ outcome.value.transcript_language = None
        /\ outcome.kind = "raised" => gather.from = "metadata"

C3_Witness ==
    /\ Delivered /\ Answered(transAnswer, 404)
    /\ Answered(metaAnswer, 200)
    /\ outcome.kind = "returned" /\ outcome.value.has_transcript = FALSE
    /\ outcome.value.title = JStr("hello")

\* C4: a generic API error raised by an upstream call with status code s and
\* message m reaches the caller unchanged (same error, same s, same m).
C4_ApiErrorReachesCallerUnchanged ==
    (Delivered /\ gather.state = "raised"
        /\ gather.exc.cls = "SupadataAPIError" /\ gather.exc.status_code >= 400)
    => outcome = Raised(gather.exc)

\* C5: once an upstream request has been issued the call never fails with
\* InvalidTikTokURLError: a failure after normalisation is the auth error,
\* the credits error or the generic API error.
C5_InvalidUrlOnlyFromNormalization ==
    (Delivered /\ metaRequests + transRequests > 0 /\ outcome.kind = "raised")
    => outcome.exc.cls \in {"SupadataAuthError", "SupadataCreditsExhausted", "SupadataAPIError"}

\* C6: once gather has observed a first error, that error stays the one
\* gather raises whatever the sibling task does later, the outcome of the
\* call is that error as passed through the except clauses, and the
\* coroutine can resume at once, whatever the state of the sibling task.
C6_FailFast ==
    /\ [](pc = "gather" /\ gather.state = "raised" => ENABLED GatherResume)
    /\ [][gather.state = "raised" =>
            /\ gather' = gather
            /\ outcome'.kind # "pending" => outcome' = Raised(handlers(gather.exc))]_vars

\* The transcript task failed first; the metadata task failed later, with
\* another error, and the outcome is still the transcript task's error.
C6_Witness ==
    /\ Delivered /\ gather.from = "transcript"
    /\ metaTask = "done" /\ metaResult.raised /\ metaResult.exc # gather.exc
    /\ outcome = Raised(handlers(transResult.exc))

\* What the three normalisation steps give for a URL.
Normalize(u) ==
    LET c == clean_tiktok_url(u)
    IN IF c.raised THEN c
       ELSE LET r == resolve_short_url(c.val)
            IN IF r.raised THEN r ELSE extract_video_id(r.val)

\* C7: when a normalisation step fails, no client is ever opened, no task
\* is created, no request is sent to either endpoint, and the call fails
\* with InvalidTikTokURLError.
C7_NormalizationShortCircuits ==
    Normalize(video_url).raised =>
        /\ client = "none" /\ metaTask = "none" /\ transTask = "none"
        /\ metaRequests = 0 /\ transRequests = 0
        /\ Delivered => FailedWith("InvalidTikTokURLError")

\* A short link that does not resolve: the call has failed, nothing was sent.
C7_Witness ==
    /\ Delivered /\ video_url = "https://vt.tiktok.com/DEAD/"
    /\ cleaned_url = video_url
    /\ FailedWith("InvalidTikTokURLError")
    /\ client = "none" /\ metaRequests = 0 /\ transRequests = 0

\* C8: a call that has ended returned a record or raised one of the four
\* classified errors; no other exception reaches the caller.
C8_FiveOutcomes ==
    Delivered =>
        \/ outcome.kind = "returned"
        \/ /\ outcome.kind = "raised"
           /\ outcome.exc.cls \in {"InvalidTikTokURLError", "SupadataAuthError",
                                   "SupadataCreditsExhausted", "SupadataAPIError"}

\* A transport failure of the metadata request, and a body that is no JSON
\* object on the transcript side: the caller gets a classified error.
C8_Witness ==
    /\ Delivered /\ metaAnswer = TransportFailure /\ gather.from = "metadata"
    /\ transTask = "done" /\ transResult = Raise(AttributeError)
    /\ FailedWith("SupadataAPIError")

IsJsonObject(response) ==
    Answered(response, 200) /\ response.json.valid /\ response.json.val.k = "obj"

\* C9: a metadata 200 response whose body is a JSON object never makes
\* _fetch_metadata raise, and never makes the call fail.
C9_MapperNeverRaises ==
    (metaTask = "done" /\ IsJsonObject(metaAnswer)) =>
        /\ ~metaResult.raised
        /\ (Delivered /\ outcome.kind = "raised") => gather.from = "transcript"

CanonicalMetadataFields ==
    {"title", "description", "audio_url", "likes", "views", "shares", "comments"}

\* C10: when the canonical key of a field is present in the body with a
\* string or a number, the mapped field is that value (0 and "" included).
C10_CanonicalFirst ==
    /\ (metaTask = "done" /\ IsJsonObject(metaAnswer) /\ ~metaResult.raised) =>
          LET body == metaAnswer.json.val.o
          IN \A f \in CanonicalMetadataFields \cap DOMAIN body :
                body[f].k \in {"str", "int"} => metaResult.val[f] = body[f]
    /\ (transTask = "done" /\ IsJsonObject(transAnswer) /\ ~transResult.raised) =>
          LET body == transAnswer.json.val.o
          IN /\ ("text" \in DOMAIN body /\ body["text"].k = "str") =>
                  (transResult.val # None /\ transResult.val.text = body["text"])
             /\ ("language" \in DOMAIN body /\ body["language"].k = "str"
                    /\ transResult.val # None) =>
                  transResult.val.language = body["language"]

\* The provider-specific alias of a metadata field: <<outer key, inner key>>,
\* the inner key being "" for an alias at the top level of the body.
Alias(f) ==
    CASE f \in {"title", "description"} -> <<"desc", "">>
      [] f = "audio_url" -> <<"music", "playUrl">>
      [] f = "likes" -> <<"stats", "diggCount">>
      [] f = "views" -> <<"stats", "playCount">>
      [] f = "shares" -> <<"stats", "shareCount">>
      [] f = "comments" -> <<"stats", "commentCount">>

HasAlias(body, f) ==
    LET a == Alias(f)
    IN /\ a[1] \in DOMAIN body
       /\ a[2] # "" => (body[a[1]].k = "obj" /\ a[2] \in DOMAIN body[a[1]].o)

AliasValue(body, f) ==
    LET a == Alias(f)
    IN IF a[2] = "" THEN body[a[1]] ELSE body[a[1]].o[a[2]]

\* The metadata fields of a returned record whose canonical key is absent
\* from the body and whose alias is present hold the alias value.
MetadataAliasFallback ==
    (outcome.kind = "returned" /\ IsJsonObject(metaAnswer)) =>
        LET body == metaAnswer.json.val.o
        IN \A f \in CanonicalMetadataFields :
              (f \notin DOMAIN body /\ HasAlias(body, f)) =>
                  outcome.value[f] = AliasValue(body, f)

AliasOnly(body, canonical, alias) ==
    canonical \notin DOMAIN body /\ alias \in DOMAIN body

\* C11 (as stated): a field whose canonical key is absent and whose alias is
\* present equals the alias value in the returned record, for the metadata
\* fields and for the transcript text and language.
C11_AliasValueAlways ==
    /\ MetadataAliasFallback
    /\ (outcome.kind = "returned" /\ IsJsonObject(transAnswer)) =>
          LET body == transAnswer.json.val.o
          IN /\ AliasOnly(body, "text", "transcript") =>
                  outcome.value.transcript = body["transcript"]
             /\ AliasOnly(body, "language", "lang") =>
                  outcome.value.transcript_language = body["lang"]

\* C11 (amended): the metadata fields equal their alias value; the
\* transcript text equals its alias value when that value is non-empty, and
\* the language equals its alias value when the record has a transcript;
\* otherwise transcript and transcript_language are both null.
C11_AliasFallback ==
    /\ MetadataAliasFallback
    /\ (outcome.kind = "returned" /\ IsJsonObject(transAnswer)) =>
          LET body == transAnswer.json.val.o
              rec == outcome.value
          IN /\ AliasOnly(body, "text", "transcript") =>
                  IF Truthy(body["transcript"])
                  THEN rec.transcript = body["transcript"] /\ rec.has_transcript
                  ELSE rec.transcript = None /\ rec.transcript_language = None
             /\ AliasOnly(body, "language", "lang") =>
                  IF rec.has_transcript
                  THEN rec.transcript_language = body["lang"]
                  ELSE rec.transcript_language = None

\* Metadata {desc: "hello", stats: {diggCount: n}} with transcript 404.
C11_Witness ==
    /\ outcome.kind = "returned"
    /\ metaAnswer = OkResponse(Doc(JObj(
          [desc |-> JStr("hello"), stats |-> JObj("diggCount" :> JInt(MaxCount))])))
    /\ Answered(transAnswer, 404)
    /\ outcome.value.title = JStr("hello") /\ outcome.value.description = JStr("hello")
    /\ outcome.value.likes = JInt(MaxCount) /\ outcome.value.has_transcript = FALSE

MetadataFieldNames ==
    {"title", "description", "audio_url", "author", "likes", "views", "shares", "comments"}

\* C12: in a returned record has_transcript is true exactly when transcript
\* is non-null and non-empty, and transcript is then the text the transcript
\* body carried (a string whenever the body's text is one); when
\* has_transcript is false transcript and transcript_language are null; url
\* and video_id are the values of normalisation and the eight metadata
\* fields are those _fetch_metadata returned.
C12_RecordConsistent ==
    outcome.kind = "returned" =>
        LET rec == outcome.value
        IN /\ rec.has_transcript = (rec.transcript # None /\ rec.transcript # JStr(""))
           /\ rec.has_transcript => Truthy(rec.transcript)
           /\ rec.has_transcript =>
                 /\ IsJsonObject(transAnswer)
                 /\ LET body == transAnswer.json.val.o
                    IN /\ rec.transcript \in {get(body, "text"), get(body, "transcript")}
                       /\ (get(body, "text").k \in {"str", "null"}
                             /\ get(body, "transcript").k \in {"str", "null"})
                          => rec.transcript.k = "str"
           /\ ~rec.has_transcript =>
                 (rec.transcript = None /\ rec.transcript_language = None)
           /\ rec.url = resolved_url /\ rec.video_id = video_id
           /\ Normalize(video_url) = Ret(rec.video_id)
           /\ \A f \in MetadataFieldNames : rec[f] = metaResult.val[f]

\* Metadata 200 with every canonical key and transcript 200 with
\* {transcript: "hello", lang: "hello"}.
C12_Witness ==
    /\ outcome.kind = "returned"
    /\ metaAnswer = OkResponse(Doc(JObj(FullMetadataBody)))
    /\ transAnswer = OkResponse(Doc(JObj(
          [transcript |-> JStr("hello"), lang |-> JStr("hello")])))
    /\ outcome.value.has_transcript
    /\ outcome.value.transcript = JStr("hello")
    /\ outcome.value.transcript_language = JStr("hello")
    /\ outcome.value.likes = JInt(MaxCount)
    /\ outcome.value.video_id = "7000000000000000000"

\* C13: when one of the two tasks has failed, the sibling has been
\* cancelled: in the state where the error is delivered to the caller no
\* request of the sibling is in flight any more.
C13_SiblingCancelledOnFailure ==
    (Delivered /\ gather.state = "raised") =>
        (metaTask # "inflight" /\ transTask # "inflight")

\* The result is the generic API error carrying status code s.
IsApiError(result, s) ==
    result.raised /\ result.exc.cls = "SupadataAPIError" /\ result.exc.status_code = s

\* The classification both operations share, for an answer other than 404.
ClassifiedAsInTable(response, result) ==
    /\ Answered(response, 401) => result = Raise(SupadataAuthError)
    /\ Answered(response, 402) => result = Raise(SupadataCreditsExhausted)
    /\ (response.transport = "ok" /\ response.status_code >= 400
            /\ response.status_code \notin {401, 402, 404})
       => IsApiError(result, response.status_code)
    /\ response.transport = "failed" => IsApiError(result, NoStatus)
    /\ (result.raised /\ result.exc.cls \in
            {"SupadataAuthError", "SupadataCreditsExhausted", "SupadataAPIError"})
       => (response.transport = "failed" \/ response.status_code >= 400)

\* C14: 401 gives the auth error, 402 the credits error, any other status
\* >= 400 the generic API error with that status code, a transport failure
\* the generic API error without status code, and only those answers give
\* these errors; the two operations differ at 404 only, which
\* _fetch_transcript maps to None and _fetch_metadata to the generic API
\* error with status code 404.
C14_StatusClassification ==
    /\ metaTask = "done" =>
          /\ ClassifiedAsInTable(metaAnswer, metaResult)
          /\ Answered(metaAnswer, 404) => IsApiError(metaResult, 404)
    /\ transTask = "done" =>
          /\ ClassifiedAsInTable(transAnswer, transResult)
          /\ Answered(transAnswer, 404) => transResult = Ret(None)
    /\ (metaTask = "done" /\ transTask = "done"
           /\ metaAnswer.transport = transAnswer.transport
           /\ metaAnswer.status_code = transAnswer.status_code
           /\ ~Answered(metaAnswer, 404)
           /\ (metaAnswer.transport = "failed" \/ metaAnswer.status_code >= 400))
       => /\ metaResult.raised /\ transResult.raised
          /\ metaResult.exc.cls = transResult.exc.cls
          /\ metaResult.exc.status_code = transResult.exc.status_code

\* Both endpoints answered 404: an API error with status code 404 for the
\* metadata, None for the transcript.
C14_Witness ==
    /\ metaTask = "done" /\ transTask = "done"
    /\ Answered(metaAnswer, 404) /\ Answered(transAnswer, 404)
    /\ IsApiError(metaResult, 404) /\ transResult = Ret(None)

\* C15: each endpoint is requested at most once in a call, whatever the
\* outcomes of the requests.
C15_NoRetries ==
    /\ metaRequests <= 1 /\ transRequests <= 1
    /\ (metaTask = "done" /\ metaResult.raised) => metaRequests = 1
    /\ (transTask = "done" /\ transResult.raised) => transRequests = 1

\* A 500 from the metadata endpoint and a transport failure of the
\* transcript request: the call has ended after one request to each.
C15_Witness ==
    /\ Delivered /\ outcome.kind = "raised"
    /\ Answered(metaAnswer, 500) /\ transAnswer = TransportFailure
    /\ metaTask = "done" /\ transTask = "done"
    /\ metaRequests = 1 /\ transRequests = 1

\* C16: the client is never closed while a metadata or transcript request
\* issued on it is still in flight.
C16_ClientOpenWhileInFlight ==
    client = "closed" => (metaTask # "inflight" /\ transTask # "inflight")

\* C17: when both tasks ended with a value, the call returns the record
\* built from the mapping of the metadata answer and the mapping of the
\* transcript answer: it depends on the two answers (and the URL) only,
\* not on which task finished first, and neither result takes the other's
\* place.
C17_RecordDependsOnAnswersOnly ==
    (Delivered /\ metaTask = "done" /\ transTask = "done"
        /\ ~metaResult.raised /\ ~transResult.raised)
    => /\ outcome.kind = "returned"
       /\ outcome.value =
             TikTokData(resolved_url, video_id,
                        fetch_metadata(metaAnswer).val, fetch_transcript(transAnswer).val)
       /\ \A f \in MetadataFieldNames : outcome.value[f] = metaResult.val[f]
       /\ outcome.value.transcript =
             (IF transResult.val = None THEN None ELSE transResult.val.text)

\* The transcript task finished before the metadata task and the record
\* holds each result in its own fields.
C17_Witness ==
    /\ outcome.kind = "returned"
    /\ finished = <<"transcript", "metadata">>
    /\ metaAnswer = OkResponse(Doc(JObj(FullMetadataBody)))
    /\ transAnswer = OkResponse(Doc(JObj(
          [text |-> JStr("hello"), language |-> JStr("hello")])))
    /\ outcome.value.title = JStr("hello") /\ outcome.value.views = JInt(MaxCount)
    /\ outcome.value.transcript = JStr("hello") /\ outcome.value.has_transcript

====
